---------------------------- MODULE Spec2Model ----------------------------
(***************************************************************************)
(* Activation functions of tiny_dnn and the two batched passes that apply  *)
(* them (tiny_dnn/activations/activation_function.h).                      *)
(*                                                                         *)
(* float_t is modelled as a binary floating-point format with Precision    *)
(* significand bits, round-to-nearest-even and gradual underflow: a value  *)
(* is the integer number of units of 1/One it holds (One = 64, so 32 is    *)
(* 0.5 and 1 is the smallest positive value), or an infinity, or the NaN.  *)
(* A result beyond the largest finite value overflows to an infinity.      *)
(* Zero has no sign.                                                       *)
(***************************************************************************)
EXTENDS Integers, Sequences, FiniteSets, TLC

\* ------------------------------------------------------------ bounds
MaxBatch == 2
MaxWidth == 2

\* ------------------------------------------------------------ float_t
Precision == 4
One == 64

\* The exponent range: the largest finite value is (2^Precision - 1) * 2^ExpRange
\* units of 1/One (120.0).
ExpRange == 9

\* +infinity; -Inf is -infinity.  They compare with the finite values as the
\* integers do.
Inf == 1048576

\* The NaN (one stands for all; it equals itself here, as a bit pattern does).
NaN == 2097152

Abs(x) == IF x < 0 THEN -x ELSE x

Sign(x) == IF x < 0 THEN -1 ELSE 1

RECURSIVE Pow2(_)
Pow2(n) == IF n = 0 THEN 1 ELSE 2 * Pow2(n - 1)

Largest == (Pow2(Precision) - 1) * Pow2(ExpRange)

IsFinite(x) == x # NaN /\ x # Inf /\ x # -Inf

\* The spacing of the representable values around mag/den: the smallest power
\* of two q with mag/den < 2^Precision * q.
RECURSIVE Quantum(_, _, _)
Quantum(mag, den, q) ==
    IF mag < Pow2(Precision) * q * den THEN q ELSE Quantum(mag, den, 2 * q)

\* num/den (den > 0), in units of 1/One, rounded to the nearest representable
\* value, ties to the even significand; to an infinity when the rounded value
\* is beyond the largest finite one.
Round(num, den) ==
    LET mag  == Abs(num)
        q    == Quantum(mag, den, 1)
        d    == den * q
        lo   == mag \div d
        rest == mag % d
        up   == IF 2 * rest > d \/ (2 * rest = d /\ lo % 2 = 1) THEN 1 ELSE 0
        r    == (lo + up) * q
    IN  Sign(num) * (IF r > Largest THEN Inf ELSE r)

\* x < y and x > y of float_t: false when either is the NaN.
Lt(x, y) == x # NaN /\ y # NaN /\ x < y

Gt(x, y) == Lt(y, x)

Le(x, y) == x # NaN /\ y # NaN /\ x <= y

FNeg(x) == IF x = NaN THEN NaN ELSE -x

FAdd(x, y) ==
    IF x = NaN \/ y = NaN THEN NaN
    ELSE IF ~IsFinite(x) THEN (IF y = -x THEN NaN ELSE x)
    ELSE IF ~IsFinite(y) THEN y
    ELSE Round(x + y, 1)

FSub(x, y) == FAdd(x, FNeg(y))

FMul(x, y) ==
    IF x = NaN \/ y = NaN THEN NaN
    ELSE IF ~IsFinite(x) \/ ~IsFinite(y)
      THEN (IF x = 0 \/ y = 0 THEN NaN ELSE Sign(x) * Sign(y) * Inf)
    ELSE Round(x * y, One)

\* Zero has no sign here: a nonzero value over zero is the infinity of the
\* sign of the value.
FDiv(x, y) ==
    IF x = NaN \/ y = NaN THEN NaN
    ELSE IF ~IsFinite(x) THEN (IF ~IsFinite(y) THEN NaN ELSE Sign(x) * Sign(y) * Inf)
    ELSE IF ~IsFinite(y) THEN 0
    ELSE IF y = 0 THEN (IF x = 0 THEN NaN ELSE Sign(x) * Inf)
    ELSE Round(Sign(y) * x * One, Abs(y))

\* float_t(0.01)
Hundredth == Round(One, 100)

\* std::exp on finite arguments between -5 and 5: ExpTab[n] is e^(n/One), in
\* units of 1/One, correctly rounded.
ExpTab ==
    -288 :> 1 @@ -256 :> 1 @@ -240 :> 2 @@ -224 :> 2 @@ -208 :> 2 @@ -192 :> 3 @@
    -176 :> 4 @@ -160 :> 5 @@ -144 :> 7 @@ -128 :> 9 @@ -120 :> 10 @@ -112 :> 11 @@
    -104 :> 13 @@ -96 :> 14 @@ -88 :> 16 @@ -80 :> 18 @@ -72 :> 20 @@ -64 :> 24 @@
    -60 :> 26 @@ -56 :> 26 @@ -52 :> 28 @@ -48 :> 30 @@ -44 :> 32 @@ -40 :> 36 @@
    -36 :> 36 @@ -32 :> 40 @@ -30 :> 40 @@ -28 :> 40 @@ -26 :> 44 @@ -24 :> 44 @@
    -22 :> 44 @@ -20 :> 48 @@ -18 :> 48 @@ -16 :> 48 @@ -15 :> 52 @@ -14 :> 52 @@
    -13 :> 52 @@ -12 :> 52 @@ -11 :> 52 @@ -10 :> 56 @@ -9 :> 56 @@ -8 :> 56 @@
    -7 :> 56 @@ -6 :> 60 @@ -5 :> 60 @@ -4 :> 60 @@ -3 :> 60 @@ -2 :> 64 @@
    -1 :> 64 @@ 0 :> 64 @@ 1 :> 64 @@ 2 :> 64 @@ 3 :> 64 @@ 4 :> 72 @@
    5 :> 72 @@ 6 :> 72 @@ 7 :> 72 @@ 8 :> 72 @@ 9 :> 72 @@ 10 :> 72 @@
    11 :> 80 @@ 12 :> 80 @@ 13 :> 80 @@ 14 :> 80 @@ 15 :> 80 @@ 16 :> 80 @@
    18 :> 88 @@ 20 :> 88 @@ 22 :> 88 @@ 24 :> 96 @@ 26 :> 96 @@ 28 :> 96 @@
    30 :> 104 @@ 32 :> 104 @@ 36 :> 112 @@ 40 :> 120 @@ 44 :> 128 @@ 48 :> 128 @@
    52 :> 144 @@ 56 :> 160 @@ 60 :> 160 @@ 64 :> 176 @@ 72 :> 192 @@ 80 :> 224 @@
    88 :> 256 @@ 96 :> 288 @@ 104 :> 320 @@ 112 :> 384 @@ 120 :> 416 @@ 128 :> 480 @@
    144 :> 576 @@ 160 :> 768 @@ 176 :> 1024 @@ 192 :> 1280 @@ 208 :> 1664 @@ 224 :> 2048 @@
    240 :> 2816 @@ 256 :> 3584 @@ 288 :> 5632

\* std::exp: it underflows to zero from -5 down and overflows from 5 up.
Exp(x) ==
    IF x = NaN THEN NaN
    ELSE IF x <= -320 THEN 0
    ELSE IF x >= 320 THEN Inf
    ELSE ExpTab[x]

\* std::tanh on finite arguments between -5 and 5, correctly rounded.
TanhTab ==
    -288 :> -64 @@ -256 :> -64 @@ -240 :> -64 @@ -224 :> -64 @@ -208 :> -64 @@ -192 :> -64 @@
    -176 :> -64 @@ -160 :> -64 @@ -144 :> -64 @@ -128 :> -60 @@ -120 :> -60 @@ -112 :> -60 @@
    -104 :> -60 @@ -96 :> -56 @@ -88 :> -56 @@ -80 :> -56 @@ -72 :> -52 @@ -64 :> -48 @@
    -60 :> -48 @@ -56 :> -44 @@ -52 :> -44 @@ -48 :> -40 @@ -44 :> -40 @@ -40 :> -36 @@
    -36 :> -32 @@ -32 :> -30 @@ -30 :> -28 @@ -28 :> -26 @@ -26 :> -24 @@ -24 :> -22 @@
    -22 :> -22 @@ -20 :> -20 @@ -18 :> -18 @@ -16 :> -16 @@ -15 :> -15 @@ -14 :> -14 @@
    -13 :> -13 @@ -12 :> -12 @@ -11 :> -11 @@ -10 :> -10 @@ -9 :> -9 @@ -8 :> -8 @@
    -7 :> -7 @@ -6 :> -6 @@ -5 :> -5 @@ -4 :> -4 @@ -3 :> -3 @@ -2 :> -2 @@
    -1 :> -1 @@ 0 :> 0 @@ 1 :> 1 @@ 2 :> 2 @@ 3 :> 3 @@ 4 :> 4 @@
    5 :> 5 @@ 6 :> 6 @@ 7 :> 7 @@ 8 :> 8 @@ 9 :> 9 @@ 10 :> 10 @@
    11 :> 11 @@ 12 :> 12 @@ 13 :> 13 @@ 14 :> 14 @@ 15 :> 15 @@ 16 :> 16 @@
    18 :> 18 @@ 20 :> 20 @@ 22 :> 22 @@ 24 :> 22 @@ 26 :> 24 @@ 28 :> 26 @@
    30 :> 28 @@ 32 :> 30 @@ 36 :> 32 @@ 40 :> 36 @@ 44 :> 40 @@ 48 :> 40 @@
    52 :> 44 @@ 56 :> 44 @@ 60 :> 48 @@ 64 :> 48 @@ 72 :> 52 @@ 80 :> 56 @@
    88 :> 56 @@ 96 :> 56 @@ 104 :> 60 @@ 112 :> 60 @@ 120 :> 60 @@ 128 :> 60 @@
    144 :> 64 @@ 160 :> 64 @@ 176 :> 64 @@ 192 :> 64 @@ 208 :> 64 @@ 224 :> 64 @@
    240 :> 64 @@ 256 :> 64 @@ 288 :> 64

\* std::tanh: it rounds to -1 and 1 beyond -5 and 5.
Tanh(x) ==
    IF x = NaN THEN NaN
    ELSE IF x <= -320 THEN -One
    ELSE IF x >= 320 THEN One
    ELSE TanhTab[x]

\* sqr of util.h
sqr(x) == FMul(x, x)

\* ------------------------------------------------------------ variants
\* The classes derived from activation::function.
Variants ==
    {"identity", "sigmoid", "relu", "leaky_relu", "elu", "softmax", "tan_h",
     "tan_hp1m2"}

\* An Activation argument whose f raises on a negative input and is the
\* identity otherwise.
Raising == "raising"

Raises(h, v, i) == h = Raising /\ Lt(v[i], 0)

identity_f(v, i) == v[i]

identity_df(y) == One

sigmoid_f(v, i) == FDiv(One, FAdd(One, Exp(FNeg(v[i]))))

sigmoid_df(y) == FMul(y, FSub(One, y))

\* std::max(a, b) is (a < b) ? b : a
relu_f(v, i) == IF Lt(0, v[i]) THEN v[i] ELSE 0

relu_df(y) == IF Gt(y, 0) THEN One ELSE 0

leaky_relu_f(v, i) == IF Gt(v[i], 0) THEN v[i] ELSE FMul(Hundredth, v[i])

leaky_relu_df(y) == IF Gt(y, 0) THEN One ELSE Hundredth

elu_f(v, i) == IF Lt(v[i], 0) THEN FSub(Exp(v[i]), One) ELSE v[i]

elu_df(y) == IF Gt(y, 0) THEN One ELSE FAdd(One, y)

\* The largest of the first k elements of v as std::max_element finds it: the
\* first element, replaced by each later one it is less than.
RECURSIVE largest_of(_, _)
largest_of(v, k) ==
    IF k = 1 THEN v[1]
    ELSE LET m == largest_of(v, k - 1) IN IF Lt(m, v[k]) THEN v[k] ELSE m

\* *std::max_element(v.begin(), v.end())
max_element(v) == largest_of(v, Len(v))

\* Mutant of softmax_denom: the accumulator starts at 1 instead of 0.
RECURSIVE softmax_denom_from_one(_, _, _)
softmax_denom_from_one(v, alpha, k) ==
    IF k = 0 THEN One
    ELSE FAdd(softmax_denom_from_one(v, alpha, k - 1), Exp(FSub(v[k], alpha)))

\* denom after the first k elements of v have been added.
RECURSIVE softmax_denom(_, _, _)
softmax_denom(v, alpha, k) ==
    IF k = 0 THEN 0
    ELSE FAdd(softmax_denom(v, alpha, k - 1), Exp(FSub(v[k], alpha)))

\* numer
softmax_numer(v, i) == Exp(FSub(v[i], max_element(v)))

\* Mutant of softmax_f: the maximum is not subtracted in the numerator.
softmax_f_raw_numer(v, i) ==
    LET alpha == max_element(v)
        numer == Exp(v[i])
        denom == softmax_denom(v, alpha, Len(v))
    IN  FDiv(numer, denom)

softmax_f(v, i) ==
    LET alpha == max_element(v)
        numer == softmax_numer(v, i)
        denom == softmax_denom(v, alpha, Len(v))
    IN  FDiv(numer, denom)

softmax_df(y) == FMul(y, FSub(One, y))

tan_h_f(v, i) == Tanh(v[i])

tan_h_df(y) == FSub(One, sqr(y))

tan_hp1m2_f(v, i) ==
    LET ep == Exp(v[i]) IN FDiv(ep, FAdd(ep, Exp(FNeg(v[i]))))

tan_hp1m2_df(y) == FMul(FMul(2 * One, y), FSub(One, y))

\* h.f(v, i), for i in 1..Len(v)
f(h, v, i) ==
    CASE h = "identity"   -> identity_f(v, i)
      [] h = "sigmoid"    -> sigmoid_f(v, i)
      [] h = "relu"       -> relu_f(v, i)
      [] h = "leaky_relu" -> leaky_relu_f(v, i)
      [] h = "elu"        -> elu_f(v, i)
      [] h = "softmax"    -> softmax_f(v, i)
      [] h = "tan_h"      -> tan_h_f(v, i)
      [] h = "tan_hp1m2"  -> tan_hp1m2_f(v, i)
      [] h = Raising      -> v[i]

\* h.df(y), the scalar overload
df(h, y) ==
    CASE h = "identity"   -> identity_df(y)
      [] h = "sigmoid"    -> sigmoid_df(y)
      [] h = "relu"       -> relu_df(y)
      [] h = "leaky_relu" -> leaky_relu_df(y)
      [] h = "elu"        -> elu_df(y)
      [] h = "softmax"    -> softmax_df(y)
      [] h = "tan_h"      -> tan_h_df(y)
      [] h = "tan_hp1m2"  -> tan_hp1m2_df(y)
      [] h = Raising      -> One

\* Mutant of function_df_vec: every entry holds a derivative, not only entry i.
function_df_vec_all(h, y, i) == [k \in 1..Len(y) |-> df(h, y[k])]

\* function::df(y, i): zero everywhere but at i
function_df_vec(h, y, i) ==
    [k \in 1..Len(y) |-> IF k = i THEN df(h, y[i]) ELSE 0]

\* Mutant of softmax_df_vec: the off-diagonal entries lose their sign.
softmax_df_vec_unsigned(y, index) ==
    [i \in 1..Len(y) |->
        IF i = index THEN softmax_df(y[index]) ELSE FMul(y[i], y[index])]

\* softmax::df(y, index)
softmax_df_vec(y, index) ==
    [i \in 1..Len(y) |->
        IF i = index THEN softmax_df(y[index]) ELSE FMul(FNeg(y[i]), y[index])]

\* Mutant of df_vec: softmax does not override the vector overload.
df_vec_not_overridden(h, y, i) == function_df_vec(h, y, i)

\* h.df(y, i), the vector overload
df_vec(h, y, i) ==
    IF h = "softmax" THEN softmax_df_vec(y, i) ELSE function_df_vec(h, y, i)

\* h.one_hot()
one_hot(h) == h # "softmax"

\* vectorize::dot(a, b, len)
RECURSIVE dot(_, _, _)
dot(x, z, len) ==
    IF len = 0 THEN 0 ELSE FAdd(dot(x, z, len - 1), FMul(x[len], z[len]))

\* ------------------------------------------------------------ state
VARIABLES
    op,          \* the entry point exercised: "forward", "backward" or "eval"
    h,           \* the Activation argument (its class)
    hot,         \* what h.one_hot() returns: a class derived from a diagonal
                 \* one may override it
    pc,          \* "call", "running", "returned", "aborted"; for "eval" the
                 \* member function that has returned
    a,           \* forward_activation: const tensor_t& a
    y,           \* forward_activation: tensor_t& y
    entry,       \* the output batch (y, curr_delta) as it was at the call
    prev_delta,  \* backward_activation: const tensor_t& prev_delta
    this_out,    \* backward_activation: const tensor_t& this_out
    curr_delta,  \* backward_activation: tensor_t& curr_delta
    idx,         \* per work unit of for_i: the elements its loop has done
    arg,         \* eval: the vec_t argument
    num,         \* eval: the index argument, or the constant of the shift
    ret          \* eval: the values returned

vars ==
    <<op, h, hot, pc, a, y, entry, prev_delta, this_out, curr_delta, idx, arg,
      num, ret>>

\* ------------------------------------------------------------ inputs
\* Values of a: -1, 0 and 5 (exp(5) overflows).
FwdVals == <<-64, 0, 320>>

\* Values of prev_delta: 1, 2 and +infinity.
DeltaVals == <<64, 128, Inf>>

\* Values of this_out: -0.25, 0 and 0.5.
OutVals == <<-16, 0, 32>>

\* Values of the argument of softmax::f and softmax::df: -5, 0, 1/64, 0.25,
\* 0.5, 1 and +infinity.
EvalVals == {-320, 0, 1, 16, 32, 64, Inf}

\* Constants added to the argument of softmax::f: -1, 1 and 4.
ShiftVals == {-64, 64, 256}

\* What the output batch holds at the call.
StaleVals == {7}

Range(s) == {s[k] : k \in DOMAIN s}

Vecs(S, w) == [1..w -> S]

\* The value k places after x in the cyclic list vals.
Rot(vals, x, k) ==
    LET p == CHOOSE j \in DOMAIN vals : vals[j] = x
    IN  vals[((p - 1 + k) % Len(vals)) + 1]

\* A batch of n samples of the width of base: sample s is base with every
\* value moved s - 1 places along vals, so that no two samples are equal.
Batch(vals, base, n) ==
    [s \in 1..n |-> [i \in DOMAIN base |-> Rot(vals, base[i], s - 1)]]

Fill(n, w, x) == [s \in 1..n |-> [i \in 1..w |-> x]]

InitForward ==
    /\ op = "forward"
    /\ h \in Variants \cup {Raising}
    /\ hot = one_hot(h)
    /\ pc = "call"
    /\ \E n \in 0..MaxBatch, w \in 1..MaxWidth, st \in StaleVals :
         \E base \in Vecs(Range(FwdVals), w),
            m \in (IF n = 0 THEN 0..MaxBatch ELSE {n}) :
              /\ a = Batch(FwdVals, base, n)
              /\ y = Fill(m, w, st)
    /\ entry = y
    /\ prev_delta = <<>> /\ this_out = <<>> /\ curr_delta = <<>>
    /\ idx = <<>> /\ arg = <<>> /\ num = 0 /\ ret = <<>>

InitBackward ==
    /\ op = "backward"
    /\ h \in Variants
    /\ hot \in {one_hot(h), FALSE}
    /\ pc = "call"
    /\ \E n \in 0..MaxBatch, w \in 1..MaxWidth, st \in StaleVals :
         \E pbase \in Vecs(Range(DeltaVals), w),
            obase \in Vecs(Range(OutVals), w) :
              /\ prev_delta = Batch(DeltaVals, pbase, n)
              /\ this_out = Batch(OutVals, obase, n)
              /\ curr_delta = Fill(n, w, st)
    /\ entry = curr_delta
    /\ a = <<>> /\ y = <<>>
    /\ idx = <<>> /\ arg = <<>> /\ num = 0 /\ ret = <<>>

InitEval ==
    /\ op = "eval"
    /\ h = "softmax"
    /\ hot = one_hot(h)
    /\ pc = "call"
    /\ \E w \in 1..(MaxWidth + 1) : arg \in Vecs(EvalVals, w)
    /\ a = <<>> /\ y = <<>> /\ entry = <<>>
    /\ prev_delta = <<>> /\ this_out = <<>> /\ curr_delta = <<>>
    /\ idx = <<>> /\ num = 0 /\ ret = <<>>

Init == InitForward \/ InitBackward \/ InitEval

\* ------------------------------------------------------------ forward
\* for_i(count, body): the indices body is called with, one work unit each,
\* in no order; the steps of the work units interleave.
for_i(count) == 1..count

\* Mutant of forward_call: on an empty a, y is resized to the shape of a.
forward_call_resizing ==
    /\ op = "forward" /\ pc = "call"
    /\ IF Len(a) = 0
         THEN pc' = "returned" /\ idx' = idx /\ y' = a
         ELSE pc' = "running" /\ idx' = [s \in for_i(Len(y)) |-> 0] /\ y' = y
    /\ UNCHANGED <<op, h, hot, a, entry, prev_delta, this_out, curr_delta,
                   arg, num, ret>>

\* forward_activation is called: the early return on an empty a, or for_i
\* starts one work unit per sample of y.
forward_call ==
    /\ op = "forward" /\ pc = "call"
    /\ IF Len(a) = 0
         THEN pc' = "returned" /\ idx' = idx
         ELSE pc' = "running" /\ idx' = [s \in for_i(Len(y)) |-> 0]
    /\ UNCHANGED <<op, h, hot, a, y, entry, prev_delta, this_out, curr_delta,
                   arg, num, ret>>

\* Mutant of forward_store: every work unit reads the first sample of a.
forward_store_first_sample(yy, aa, hh, sample, i) ==
    [yy EXCEPT ![sample][i] = f(hh, aa[1], i)]

\* y_vec[i] = h.f(a_vec, i), the value stored by the body of the inner loop
forward_store(yy, aa, hh, sample, i) ==
    [yy EXCEPT ![sample][i] = f(hh, aa[sample], i)]

\* Mutant of forward_body: the work units share one loop counter.
forward_body_shared_counter(sample) ==
    /\ op = "forward" /\ pc = "running"
    /\ idx[sample] < Len(a[1])
    /\ ~Raises(h, a[sample], idx[sample] + 1)
    /\ y' = forward_store(y, a, h, sample, idx[sample] + 1)
    /\ idx' = [s \in DOMAIN idx |-> idx[sample] + 1]
    /\ UNCHANGED <<op, h, hot, pc, a, entry, prev_delta, this_out, curr_delta,
                   arg, num, ret>>

\* One iteration of the inner loop of the work unit of sample.
forward_body(sample) ==
    /\ op = "forward" /\ pc = "running"
    /\ idx[sample] < Len(a[1])
    /\ ~Raises(h, a[sample], idx[sample] + 1)
    /\ y' = forward_store(y, a, h, sample, idx[sample] + 1)
    /\ idx' = [idx EXCEPT ![sample] = @ + 1]
    /\ UNCHANGED <<op, h, hot, pc, a, entry, prev_delta, this_out, curr_delta,
                   arg, num, ret>>

\* Mutant of forward_raise: the pass restores y before the exception leaves.
forward_raise_rollback(sample) ==
    /\ op = "forward" /\ pc = "running"
    /\ idx[sample] < Len(a[1])
    /\ Raises(h, a[sample], idx[sample] + 1)
    /\ pc' = "aborted"
    /\ y' = entry
    /\ UNCHANGED <<op, h, hot, a, entry, prev_delta, this_out, curr_delta,
                   idx, arg, num, ret>>

\* h.f raises in the work unit of sample: the exception leaves the pass.
forward_raise(sample) ==
    /\ op = "forward" /\ pc = "running"
    /\ idx[sample] < Len(a[1])
    /\ Raises(h, a[sample], idx[sample] + 1)
    /\ pc' = "aborted"
    /\ UNCHANGED <<op, h, hot, a, y, entry, prev_delta, this_out, curr_delta,
                   idx, arg, num, ret>>

\* for_i has run every work unit to its end: forward_activation returns.
forward_return ==
    /\ op = "forward" /\ pc = "running"
    /\ \A s \in DOMAIN idx : idx[s] = Len(a[1])
    /\ pc' = "returned"
    /\ UNCHANGED <<op, h, hot, a, y, entry, prev_delta, this_out, curr_delta,
                   idx, arg, num, ret>>

\* ------------------------------------------------------------ backward
backward_call ==
    /\ op = "backward" /\ pc = "call"
    /\ pc' = "running"
    /\ idx' = [s \in for_i(Len(this_out)) |-> 0]
    /\ UNCHANGED <<op, h, hot, a, y, entry, prev_delta, this_out, curr_delta,
                   arg, num, ret>>

\* Mutant of backward_value: prev_delta and this_out change places.
backward_value_swapped(hh, onehot, prev_delta_vec, out_vec, c) ==
    IF onehot
      THEN FMul(out_vec[c], df(hh, prev_delta_vec[c]))
      ELSE dot(out_vec, df_vec(hh, prev_delta_vec, c), Len(prev_delta_vec))

\* curr_delta_vec[c] of the branch taken on h.one_hot()
backward_value(hh, onehot, prev_delta_vec, out_vec, c) ==
    IF onehot
      THEN FMul(prev_delta_vec[c], df(hh, out_vec[c]))
      ELSE dot(prev_delta_vec, df_vec(hh, out_vec, c), Len(prev_delta_vec))

backward_store(cd, pd, out, hh, onehot, sample, c) ==
    [cd EXCEPT ![sample][c] =
        backward_value(hh, onehot, pd[sample], out[sample], c)]

\* One iteration of the loop over c of the work unit of sample.
backward_body(sample) ==
    /\ op = "backward" /\ pc = "running"
    /\ idx[sample] < Len(prev_delta[sample])
    /\ curr_delta' = backward_store(curr_delta, prev_delta, this_out, h, hot,
                                    sample, idx[sample] + 1)
    /\ idx' = [idx EXCEPT ![sample] = @ + 1]
    /\ UNCHANGED <<op, h, hot, pc, a, y, entry, prev_delta, this_out, arg, num,
                   ret>>

backward_return ==
    /\ op = "backward" /\ pc = "running"
    /\ \A s \in DOMAIN idx : idx[s] = Len(prev_delta[s])
    /\ pc' = "returned"
    /\ UNCHANGED <<op, h, hot, a, y, entry, prev_delta, this_out, curr_delta,
                   idx, arg, num, ret>>

\* ------------------------------------------------------------ eval
\* softmax::f(arg, i) for every index i
eval_f ==
    /\ op = "eval" /\ pc = "call"
    /\ ret' = [i \in DOMAIN arg |-> softmax_f(arg, i)]
    /\ pc' = "f"
    /\ UNCHANGED <<op, h, hot, a, y, entry, prev_delta, this_out, curr_delta,
                   idx, arg, num>>

\* softmax::df(arg, index)
eval_df(index) ==
    /\ op = "eval" /\ pc = "call"
    /\ ret' = softmax_df_vec(arg, index)
    /\ num' = index
    /\ pc' = "df"
    /\ UNCHANGED <<op, h, hot, a, y, entry, prev_delta, this_out, curr_delta,
                   idx, arg>>

\* arg with c added to every element, as the caller computes it
Shifted(v, c) == [k \in DOMAIN v |-> FAdd(v[k], c)]

\* softmax::f(arg + c, i) for every index i
eval_f_shifted(c) ==
    /\ op = "eval" /\ pc = "call"
    /\ ret' = [i \in DOMAIN arg |-> softmax_f(Shifted(arg, c), i)]
    /\ num' = c
    /\ pc' = "f_shifted"
    /\ UNCHANGED <<op, h, hot, a, y, entry, prev_delta, this_out, curr_delta,
                   idx, arg>>

Next ==
    \/ forward_call
    \/ \E sample \in DOMAIN idx : forward_body(sample)
    \/ \E sample \in DOMAIN idx : forward_raise(sample)
    \/ forward_return
    \/ backward_call
    \/ \E sample \in DOMAIN idx : backward_body(sample)
    \/ backward_return
    \/ eval_f
    \/ \E index \in DOMAIN arg : eval_df(index)
    \/ \E c \in ShiftVals : eval_f_shifted(c)

Spec == Init /\ [][Next]_vars

\* ------------------------------------------------------------ properties
Returned(o) == op = o /\ pc = "returned"

\* The positions of the output batch the running pass has stored to.
Written(s, i) == s \in DOMAIN idx /\ i <= idx[s]

\* The exact sum of the values of v (no rounding).
RECURSIVE SumTo(_, _)
SumTo(v, k) == IF k = 0 THEN 0 ELSE SumTo(v, k - 1) + v[k]

Sum(v) == SumTo(v, Len(v))

\* The output batch of the fully sequential schedule: sample 1 to its end,
\* then sample 2, ..., each from its element 1 to its last.
RECURSIVE forward_sequential(_, _)
forward_sequential(s, i) ==
    IF s = 0 THEN entry
    ELSE IF i = 0 THEN forward_sequential(s - 1, IF s = 1 THEN 0 ELSE Len(a[1]))
    ELSE forward_store(forward_sequential(s, i - 1), a, h, s, i)

RECURSIVE backward_sequential(_, _)
backward_sequential(s, c) ==
    IF s = 0 THEN entry
    ELSE IF c = 0
      THEN backward_sequential(s - 1,
                               IF s = 1 THEN 0 ELSE Len(prev_delta[s - 1]))
    ELSE backward_store(backward_sequential(s, c - 1), prev_delta, this_out,
                        h, hot, s, c)

\* A step that changes sample s of the output batch out is a step of the work
\* unit of s, and of no other.
OwnSampleOnly(out, outNext) ==
    \A s \in DOMAIN out :
        outNext[s] # out[s] =>
            /\ s \in DOMAIN idx
            /\ idx' = [idx EXCEPT ![s] = @ + 1]

\* C1: whatever the order and interleaving of the work units of for_i, a pass
\* that returns leaves the output batch of the fully sequential schedule, and
\* a work unit stores to its own sample of the output batch only.
C1_ScheduleIndependent ==
    /\ [](Returned("forward") /\ Len(a) > 0 =>
            y = forward_sequential(Len(y), Len(a[1])))
    /\ [](Returned("backward") /\ Len(this_out) > 0 =>
            curr_delta = backward_sequential(Len(this_out),
                             Len(prev_delta[Len(this_out)])))
    /\ [][OwnSampleOnly(y, y') /\ OwnSampleOnly(curr_delta, curr_delta')]_vars
    /\ [][a' = a /\ prev_delta' = prev_delta /\ this_out' = this_out]_vars

\* Both passes have returned from a batch of several samples, each computed.
C1_Witness ==
    /\ Returned("forward")
    /\ Len(idx) >= 2
    /\ \A s \in DOMAIN idx : idx[s] >= 2
    /\ y[1] # y[2]
    /\ y # entry

\* C2: forward_activation on a non-empty a returns with y of the shape of a,
\* every position stored to, and y[s][i] = h.f(a[s], i) everywhere.
C2_ForwardPost ==
    Returned("forward") /\ Len(a) > 0 /\ Len(y) = Len(a) =>
        /\ Len(y) = Len(entry)
        /\ \A s \in DOMAIN a :
             /\ Len(y[s]) = Len(a[s])
             /\ Len(y[s]) = Len(entry[s])
             /\ \A i \in 1..Len(a[s]) :
                  Written(s, i) /\ y[s][i] = f(h, a[s], i)

C2_Witness ==
    /\ Returned("forward")
    /\ h = "sigmoid"
    /\ Len(a) = 2 /\ Len(a[1]) = 2
    /\ a[1] = <<0, -64>>
    /\ y[1] = <<32, 18>>

\* C3: backward_activation with h.one_hot() true returns with
\* curr_delta[s][c] = prev_delta[s][c] * h.df(this_out[s][c]) at every
\* position, each stored to, and never changes prev_delta or this_out.
C3_BackwardOneHotPost ==
    /\ [](Returned("backward") /\ hot =>
            \A s \in DOMAIN this_out :
                \A c \in 1..Len(prev_delta[s]) :
                    /\ Written(s, c)
                    /\ curr_delta[s][c] =
                         FMul(prev_delta[s][c], df(h, this_out[s][c])))
    /\ [][op = "backward" =>
            prev_delta' = prev_delta /\ this_out' = this_out]_vars

\* sigmoid, this_out = [0.5, 0.5], prev_delta = [1.0, 2.0]: [0.25, 0.5]
C3_Witness ==
    /\ Returned("backward")
    /\ h = "sigmoid" /\ hot
    /\ this_out = <<<<32, 32>>>>
    /\ prev_delta = <<<<64, 128>>>>
    /\ curr_delta = <<<<16, 32>>>>

\* C4: backward_activation with h.one_hot() false returns with
\* curr_delta[s][c] the dot product of the whole of prev_delta[s] with the row
\* h.df(this_out[s], c).
C4_BackwardDensePost ==
    Returned("backward") /\ ~hot =>
        \A s \in DOMAIN this_out :
            \A c \in 1..Len(prev_delta[s]) :
                /\ Written(s, c)
                /\ curr_delta[s][c] =
                     dot(prev_delta[s],
                         IF h = "softmax" THEN softmax_df_vec(this_out[s], c)
                                          ELSE function_df_vec(h, this_out[s], c),
                         Len(prev_delta[s]))

\* softmax on two outputs: the off-diagonal term makes the result differ from
\* the elementwise product.
C4_Witness ==
    /\ Returned("backward")
    /\ h = "softmax" /\ ~hot
    /\ Len(this_out) >= 1 /\ Len(this_out[1]) = 2
    /\ curr_delta[1][1] # FMul(prev_delta[1][1], df(h, this_out[1][1]))

\* C5: forward_activation on an empty a returns at once and leaves y as it
\* was, whatever y holds.
C5_EmptyForward ==
    op = "forward" /\ Len(a) = 0 /\ pc # "call" =>
        pc = "returned" /\ y = entry /\ idx = <<>>

C5_Witness ==
    Returned("forward") /\ Len(a) = 0 /\ Len(y) = MaxBatch

AllWritten ==
    \A s \in DOMAIN y : \A i \in DOMAIN y[s] : Written(s, i)

NoneWritten ==
    \A s \in DOMAIN y : \A i \in DOMAIN y[s] : ~Written(s, i)

\* C6 as claimed: forward_activation ends with every position of y stored to
\* or none, and a pass that h.f aborts leaves y as it was at the call.
C6_NoPartialFailure ==
    op = "forward" /\ pc \in {"returned", "aborted"} =>
        /\ AllWritten \/ NoneWritten
        /\ pc = "aborted" => y = entry

\* C6 as amended: forward_activation stores in place and never rolls back.
\* At any moment a position stored to holds h.f(a[s], i) and any other holds
\* its value at the call; a pass that returns has stored to every position,
\* and a pass that h.f aborts keeps what was stored before the exception.
C6_InPlaceNoRollback ==
    op = "forward" =>
        /\ \A s \in DOMAIN y : \A i \in DOMAIN y[s] :
             y[s][i] = IF Written(s, i) THEN f(h, a[s], i) ELSE entry[s][i]
        /\ pc = "returned" /\ Len(a) > 0 => AllWritten
        /\ pc = "aborted" =>
             \E s \in DOMAIN idx :
                 idx[s] < Len(a[1]) /\ Raises(h, a[s], idx[s] + 1)

\* The pass was aborted after it had stored to some positions and not to
\* others.
C6_Witness ==
    /\ op = "forward" /\ pc = "aborted"
    /\ y # entry
    /\ ~AllWritten /\ ~NoneWritten

\* C7: softmax::df(y, index) returns a vector of the length of y holding
\* y[index] * (1 - y[index]) at index and -y[k] * y[index] at every other k,
\* and does not change y.
C7_SoftmaxDfRow ==
    /\ [](op = "eval" /\ pc = "df" =>
            /\ Len(ret) = Len(arg)
            /\ \A k \in DOMAIN arg :
                 ret[k] = IF k = num
                            THEN FMul(arg[num], FSub(One, arg[num]))
                            ELSE FMul(FNeg(arg[k]), arg[num]))
    /\ [][op = "eval" => arg' = arg]_vars

\* y = [0.25, 0.25, 0.5], the second index: [-0.0625, 0.1875, -0.125]
C7_Witness ==
    /\ op = "eval" /\ pc = "df"
    /\ arg = <<16, 16, 32>> /\ num = 2
    /\ ret = <<-4, 12, -8>>

AllFinite(v) == \A k \in DOMAIN v : IsFinite(v[k])

\* An index of the maximum of a finite v.
ArgMax(v) == CHOOSE i \in DOMAIN v : \A k \in DOMAIN v : v[k] <= v[i]

\* C8 as claimed: the values softmax::f(v, i) sum to 1, each is greater than
\* 0 and at most 1, and the numerator at the maximum of v is exp(0) = 1.
C8_SoftmaxSimplex ==
    op = "eval" /\ pc = "f" /\ AllFinite(arg) =>
        /\ Sum(ret) = One
        /\ \A i \in DOMAIN ret : Lt(0, ret[i]) /\ Le(ret[i], One)
        /\ softmax_numer(arg, ArgMax(arg)) = One

\* Machine epsilon, 2^(1 - Precision), in units of 1/One.
Epsilon == One \div Pow2(Precision - 1)

\* C8 as amended: for a finite v the values softmax::f(v, i) sum to 1 up to
\* rounding only (by at most Len(v) machine epsilons), each is at least 0 and
\* at most 1, being 0 where exp underflows, and the numerator at the maximum of
\* v is exp(0) = 1, so that the value there is greater than 0.
C8_SoftmaxNearSimplex ==
    op = "eval" /\ pc = "f" /\ AllFinite(arg) =>
        /\ AllFinite(ret)
        /\ Abs(Sum(ret) - One) <= Len(arg) * Epsilon
        /\ \A i \in DOMAIN ret : Le(0, ret[i]) /\ Le(ret[i], One)
        /\ softmax_numer(arg, ArgMax(arg)) = One
        /\ Gt(ret[ArgMax(arg)], 0)

\* A finite vector with an element whose exp underflows and whose values do
\* not sum to 1.
C8_Witness ==
    /\ op = "eval" /\ pc = "f" /\ AllFinite(arg)
    /\ \E i \in DOMAIN ret : ret[i] = 0
    /\ Sum(ret) # One

\* C9 as claimed: softmax::f(v + c, i) = softmax::f(v, i) for every constant c.
C9_TranslationInvariant ==
    op = "eval" /\ pc = "f_shifted" /\ AllFinite(arg) =>
        ret = [i \in DOMAIN arg |-> softmax_f(arg, i)]

\* Adding c to every element of v rounds nowhere.
ExactShift(v, c) ==
    AllFinite(v) /\ \A k \in DOMAIN v : Shifted(v, c)[k] = v[k] + c

\* C9 as amended: for a finite v, softmax::f(v + c, i) = softmax::f(v, i)
\* whenever every v[k] + c is representable, so that the shift rounds nowhere.
C9_ExactShiftInvariant ==
    op = "eval" /\ pc = "f_shifted" /\ ExactShift(arg, num) =>
        ret = [i \in DOMAIN arg |-> softmax_f(arg, i)]

C9_Witness ==
    /\ op = "eval" /\ pc = "f_shifted"
    /\ ExactShift(arg, num)
    /\ Len(arg) >= 2 /\ arg[1] # arg[2]
    /\ ret[1] # ret[2]

\* The curr_delta[s][c] of each branch of backward_activation.
Elementwise(s, c) == backward_value(h, TRUE, prev_delta[s], this_out[s], c)

Dense(s, c) == backward_value(h, FALSE, prev_delta[s], this_out[s], c)

\* C10 as claimed: for a class that inherits function::df(y, i), the dense
\* branch of backward_activation leaves the curr_delta of the elementwise
\* branch, prev_delta[s][c] * h.df(this_out[s][c]), whatever h.one_hot()
\* returns.
C10_BranchesAgree ==
    Returned("backward") /\ h # "softmax" =>
        \A s \in DOMAIN this_out :
            \A c \in 1..Len(prev_delta[s]) :
                /\ Dense(s, c) = Elementwise(s, c)
                /\ curr_delta[s][c] =
                     FMul(prev_delta[s][c], df(h, this_out[s][c]))

\* Every entry of prev_delta[s] but entry c is finite.
OthersFinite(s, c) ==
    \A k \in DOMAIN prev_delta[s] : k # c => IsFinite(prev_delta[s][k])

\* C10 as amended: the two branches agree at index c of a sample whose other
\* entries of prev_delta are finite; an infinite or NaN entry at another
\* index k makes the dense branch NaN, by prev_delta[k] * 0.
C10_FiniteBranchesAgree ==
    Returned("backward") /\ h # "softmax" =>
        \A s \in DOMAIN this_out :
            \A c \in 1..Len(prev_delta[s]) :
                /\ OthersFinite(s, c) =>
                     /\ Dense(s, c) = Elementwise(s, c)
                     /\ curr_delta[s][c] = Elementwise(s, c)
                /\ ~OthersFinite(s, c) => Dense(s, c) = NaN

\* The dense branch has run for a diagonal class on a finite prev_delta.
C10_Witness ==
    /\ Returned("backward")
    /\ h = "sigmoid" /\ ~hot
    /\ Len(this_out) >= 1 /\ Len(this_out[1]) >= 2
    /\ \A c \in DOMAIN prev_delta[1] : OthersFinite(1, c)
    /\ curr_delta[1][1] # 0

============================================================================
